---- MODULE Spec2Model ----
(***************************************************************************)
(* mime-multipart: the streaming multipart parser (read_multipart,         *)
(* read_multipart_body, inner), the FilePart temp-file lifecycle, the      *)
(* plain and the chunked writer (write_multipart, write_multipart_chunked), *)
(* the boundary resolver and generator of src/src/lib.rs, as a state       *)
(* machine.                                                                *)
(*                                                                         *)
(* A byte is a string.  "CR", "LF", "-", ":", " " and "x" stand for the    *)
(* bytes of the same meaning; a header name or the fixed text of a header  *)
(* value is one symbol ("Content-Type", "text/plain", ...); the bytes of a *)
(* boundary value are the symbols "a" (top level) and "b" (nested level).  *)
(***************************************************************************)
EXTENDS Integers, Sequences, FiniteSets, TLC

\* ------------------------------------------------------------------ bounds

\* Largest number of nodes in one level of a generated tree.
MaxParts == 2
\* Largest number of children of a generated nested multipart.
MaxKids == 2
\* A short read of the underlying stream delivers 1..MaxShortRead bytes.
MaxShortRead == 1
\* Largest number of FilePart values alive at once in the lifecycle runs.
MaxLive == 3
\* Number of temp directories the allocator hands out in the lifecycle runs.
MaxDirs == 2
\* Largest length of a nonce handed to the boundary generator.
MaxNonce == 3
\* Largest number of file parts in the input of one of the side-by-side calls.
MaxCallFiles == 2

\* ------------------------------------------------------- program constants

\* BufReader::with_capacity(4096, stream)
BufCap == 4096
\* [httparse::EMPTY_HEADER; 4]
MaxPartHeaders == 4
\* [httparse::EMPTY_HEADER; 64]
MaxMainHeaders == 64

\* ------------------------------------------------------------------- bytes

CR == "CR"
LF == "LF"
Dash == "-"
CRLF == <<CR, LF>>

None == <<>>
Some(x) == <<x>>

Min(S) == CHOOSE m \in S : \A n \in S : m <= n

\* ----------------------------------------------------------------- headers
\* A header is [name, value], both byte sequences; Headers is a sequence of
\* headers in the order received.

Header(n, v) == [name |-> n, value |-> v]

ContentTypeName == <<"Content-Type">>
ContentDispositionName == <<"Content-Disposition">>

\* headers.get::<ContentType>(): the one Content-Type line, parsed as a Mime
\* [top, boundary, ext]; None when absent or not parseable.  boundary is the
\* value of the boundary parameter, ext tells whether the mime crate holds it
\* as Value::Ext (any text but "utf-8", which it holds as Value::Utf8).
MimeOf(value) ==
  IF value = <<>> THEN None
  ELSE IF value[1] = "multipart/mixed" /\ Len(value) = 1
         THEN Some([top |-> "multipart", boundary |-> None, ext |-> FALSE])
  ELSE IF value[1] = "multipart/mixed; boundary="
         THEN Some([top |-> "multipart", boundary |-> Some(Tail(value)),
                    ext |-> Tail(value) # <<"utf-8">>])
  ELSE IF value[1] \in {"text/plain", "image/gif"} /\ Len(value) = 1
         THEN Some([top |-> "other", boundary |-> None, ext |-> FALSE])
  ELSE IF value[1] = "text/plain; boundary=" /\ Len(value) > 1
         THEN Some([top |-> "other", boundary |-> Some(Tail(value)),
                    ext |-> Tail(value) # <<"utf-8">>])
  ELSE None

GetContentType(headers) ==
  LET lines == SelectSeq(headers, LAMBDA h : h.name = ContentTypeName)
  IN  IF Len(lines) = 1 THEN MimeOf(lines[1].value) ELSE None

\* headers.get::<ContentDisposition>(): [disposition, filename]
DispositionOf(value) ==
  IF Len(value) # 1 THEN None
  ELSE IF value[1] = "attachment"
         THEN Some([disposition |-> "Attachment", filename |-> FALSE])
  ELSE IF value[1] = "attachment; filename=f"
         THEN Some([disposition |-> "Attachment", filename |-> TRUE])
  ELSE IF value[1] = "form-data; name=n"
         THEN Some([disposition |-> "FormData", filename |-> FALSE])
  ELSE IF value[1] = "form-data; filename=f"
         THEN Some([disposition |-> "FormData", filename |-> TRUE])
  ELSE IF value[1] = "file; filename=f"
         THEN Some([disposition |-> "Ext", filename |-> TRUE])
  ELSE None

GetContentDisposition(headers) ==
  LET lines == SelectSeq(headers, LAMBDA h : h.name = ContentDispositionName)
  IN  IF Len(lines) = 1 THEN DispositionOf(lines[1].value) ELSE None

\* get_multipart_boundary: [ok, err, boundary].  The loop over the parameters
\* returns at a pair (Attr::Boundary, Value::Ext(val)) and at no other.
get_multipart_boundary(headers) ==
  LET ct == GetContentType(headers)
  IN  IF ct = None
        THEN [ok |-> FALSE, err |-> "NoRequestContentType", boundary |-> <<>>]
      ELSE IF ct[1].top # "multipart"
        THEN [ok |-> FALSE, err |-> "NotMultipart", boundary |-> <<>>]
      ELSE IF ct[1].boundary = None \/ ~ct[1].ext
        THEN [ok |-> FALSE, err |-> "BoundaryNotSpecified", boundary |-> <<>>]
      ELSE [ok |-> TRUE, err |-> "", boundary |-> <<Dash, Dash>> \o ct[1].boundary[1]]

\* ------------------------------------------------------- boundary generator

\* generate_boundary as it would be without the test for '/'.
generate_boundary_keeping_slashes(nonce) ==
  [i \in DOMAIN nonce |-> IF nonce[i] = "=" THEN "-" ELSE nonce[i]]

\* generate_boundary, on the text TextNonce::sized(68) gave
generate_boundary(nonce) ==
  [i \in DOMAIN nonce |->
     IF nonce[i] = "=" THEN "-"
     ELSE IF nonce[i] = "/" THEN "."
     ELSE nonce[i]]

\* --------------------------------------------------------- header parsing
\* httparse::parse_headers on a raw block, then Headers::from_raw.

IsNameToken(c) == c \notin {":", " ", CR, LF}

\* first index >= i of buf whose byte satisfies Stop, Len(buf)+1 if none
FirstFrom(buf, i, Stop(_)) ==
  LET hits == {j \in i..Len(buf) : Stop(buf[j])}
  IN  IF hits = {} THEN Len(buf) + 1 ELSE Min(hits)

RECURSIVE parse_headers_iter(_, _, _, _)
parse_headers_iter(buf, i, acc, room) ==
  LET Partial == [status |-> "Partial", headers |-> <<>>]
      Error == [status |-> "Error", headers |-> <<>>]
  IN
  IF i > Len(buf) THEN Partial
  ELSE IF buf[i] = CR
    THEN IF i + 1 > Len(buf) THEN Partial
         ELSE IF buf[i + 1] = LF THEN [status |-> "Complete", headers |-> acc]
         ELSE Error
  ELSE IF buf[i] = LF THEN [status |-> "Complete", headers |-> acc]
  ELSE IF Len(acc) = room THEN Error                  \* TooManyHeaders
  ELSE
    LET j == FirstFrom(buf, i, LAMBDA c : ~IsNameToken(c))
    IN  IF j > Len(buf) THEN Partial
        ELSE IF j = i \/ buf[j] # ":" THEN Error       \* HeaderName
        ELSE
          LET k == FirstFrom(buf, j + 1, LAMBDA c : c # " ")
              m == FirstFrom(buf, k, LAMBDA c : c \in {CR, LF})
          IN  IF m > Len(buf) THEN Partial
              ELSE IF buf[m] = CR /\ m + 1 > Len(buf) THEN Partial
              ELSE IF buf[m] = CR /\ buf[m + 1] # LF THEN Error   \* HeaderValue
              \* the loop goes on after this line, with one more header held
              ELSE CHOOSE parsed \in
                     { parse_headers_iter(buf, next, held, room) :
                         next \in {IF buf[m] = CR THEN m + 2 ELSE m + 1},
                         held \in {Append(acc, Header(SubSeq(buf, i, j - 1),
                                                      SubSeq(buf, k, m - 1)))} } : TRUE

\* on the header block of a part, with header_memory of inner
parse_headers(buf) == parse_headers_iter(buf, 1, <<>>, MaxPartHeaders)

\* on the main header block, with header_memory of read_multipart
parse_main_headers(buf) == parse_headers_iter(buf, 1, <<>>, MaxMainHeaders)

\* ------------------------------------------------------------ token scan
\* BufReadExt::stream_until_token on the bytes of `s` after offset `p`:
\* [found, copied, pos], pos the offset after the consumed token (or the end).

\* The scan as it would be if the token were copied to the sink as well.
stream_until_token_copying_token(s, p, token) ==
  LET n == Len(token)
      hits == {i \in p..(Len(s) - n) : SubSeq(s, i + 1, i + n) = token}
  IN  IF hits = {}
        THEN [found |-> FALSE, copied |-> SubSeq(s, p + 1, Len(s)), pos |-> Len(s)]
        ELSE [found |-> TRUE, copied |-> SubSeq(s, p + 1, Min(hits) + n),
              pos |-> Min(hits) + n]

stream_until_token(s, p, token) ==
  LET n == Len(token)
      hits == {i \in p..(Len(s) - n) : SubSeq(s, i + 1, i + n) = token}
  IN  IF hits = {}
        THEN [found |-> FALSE, copied |-> SubSeq(s, p + 1, Len(s)), pos |-> Len(s)]
        ELSE [found |-> TRUE, copied |-> SubSeq(s, p + 1, Min(hits)),
              pos |-> Min(hits) + n]

\* ------------------------------------------------------------------- nodes
\* Node: Part(Part{headers, body}), File(FilePart{headers, path, size,
\* tempdir}) or Multipart((headers, nodes)); one record shape for the three.
\* A path is [dir, name]: the temp directory d holds the file [dir |-> d,
\* name |-> "nonce"]; directory 0 is the caller's own directory.

NoPath == [dir |-> 0, name |-> ""]

Part(headers, body) ==
  [type |-> "Part", headers |-> headers, body |-> body,
   path |-> NoPath, size |-> None, tempdir |-> None, nodes |-> <<>>]

Multipart(headers, nodes) ==
  [type |-> "Multipart", headers |-> headers, body |-> <<>>,
   path |-> NoPath, size |-> None, tempdir |-> None, nodes |-> nodes]

\* FilePart::new
FilePart_new(headers, path) ==
  [type |-> "File", headers |-> headers, body |-> <<>>,
   path |-> path, size |-> None, tempdir |-> None, nodes |-> <<>>]

\* FilePart::create as it would be if the file were put at a fixed place
\* outside the directory made for it.
FilePart_create_at_fixed_path(headers, d) ==
  [type |-> "File", headers |-> headers, body |-> <<>>,
   path |-> [dir |-> 0, name |-> "nonce"], size |-> None, tempdir |-> Some(d),
   nodes |-> <<>>]

\* FilePart::create, d the directory tempfile::Builder::tempdir() made
FilePart_create(headers, d) ==
  [type |-> "File", headers |-> headers, body |-> <<>>,
   path |-> [dir |-> d, name |-> "nonce"], size |-> None, tempdir |-> Some(d),
   nodes |-> <<>>]

\* FilePart::do_not_delete_on_drop
do_not_delete_on_drop(fp) == [fp EXCEPT !.tempdir = None]

\* #[derive(Clone)] on FilePart: a field-by-field copy, tempdir included
FilePart_clone(fp) == fp

\* ----------------------------------------------------------------- storage
\* fs = [files, dirs]: files maps each existing path to its content, dirs is
\* the set of existing temp directories.

RemoveFile(fl, path) == [p \in (DOMAIN fl) \ {path} |-> fl[p]]

PutFile(fl, path, content) ==
  [p \in (DOMAIN fl) \cup {path} |-> IF p = path THEN content ELSE fl[p]]

\* std::fs::remove_dir removes an empty directory only
RemoveDir(fl, ds, d) ==
  IF \E p \in DOMAIN fl : p.dir = d THEN ds ELSE ds \ {d}

\* Drop as it would be without the tempdir test (as in filepart.rs, lines 65-70).
FilePart_drop_unconditional(fp, st) ==
  LET fl == RemoveFile(st.files, fp.path)
  IN  [files |-> fl, dirs |-> RemoveDir(fl, st.dirs, fp.path.dir)]

\* Drop for FilePart
FilePart_drop(fp, st) ==
  IF fp.tempdir # None
    THEN LET fl == RemoveFile(st.files, fp.path)
         IN  [files |-> fl, dirs |-> RemoveDir(fl, st.dirs, fp.tempdir[1])]
    ELSE st

\* Drop of a Vec<Node>: every FilePart in it, nested ones included.
RECURSIVE DropNodes(_, _)
DropNodes(nodes, st) ==
  IF nodes = <<>> THEN st
  ELSE LET n == nodes[1]
           after == IF n.type = "File" THEN FilePart_drop(n, st)
                    ELSE IF n.type = "Multipart" THEN DropNodes(n.nodes, st)
                    ELSE st
       IN  DropNodes(Tail(nodes), after)

\* ------------------------------------------------------------ plain writer

\* The header loop as it would be if it walked the headers last to first.
RECURSIVE write_headers_last_first(_)
write_headers_last_first(headers) ==
  IF headers = <<>> THEN <<>>
  ELSE write_headers_last_first(Tail(headers))
       \o headers[1].name \o <<":", " ">> \o headers[1].value \o CRLF

\* The header loop and what it writes: "Name: Value" CRLF per header, in order.
RECURSIVE write_headers(_)
write_headers(headers) ==
  IF headers = <<>> THEN <<>>
  ELSE headers[1].name \o <<":", " ">> \o headers[1].value \o CRLF
       \o write_headers(Tail(headers))

\* WriteAllCount::write_all_count as it would be if it made one `write` call
\* on a stream that takes a byte at a time, and returned that call's count.
write_all_count_of_one_write(buf) == IF buf = <<>> THEN 0 ELSE 1

\* WriteAllCount::write_all_count: write_all(buf), then Ok(buf.len())
write_all_count(buf) == Len(buf)

\* The counts the header loop adds up: name, ": ", value and CRLF per header.
RECURSIVE count_headers(_)
count_headers(headers) ==
  IF headers = <<>> THEN 0
  ELSE write_all_count(headers[1].name) + write_all_count(<<":", " ">>)
       + write_all_count(headers[1].value) + write_all_count(CRLF)
       + count_headers(Tail(headers))

\* write_multipart: [ok, err, bytes, count]; bytes is what reached the stream
\* (on an error too), count the sum of the write_all_count results, of the
\* io::copy result for a file and of the nested calls' results.
RECURSIVE write_multipart(_, _, _)
write_multipart(boundary, nodes, fl) ==
  IF nodes = <<>>
    THEN [ok |-> TRUE, err |-> "",
          bytes |-> <<Dash, Dash>> \o boundary \o <<Dash, Dash>>,
          count |-> write_all_count(<<Dash, Dash>>) + write_all_count(boundary)
                    + write_all_count(<<Dash, Dash>>)]
  ELSE
    LET node == nodes[1]
        line == <<Dash, Dash>> \o boundary \o CRLF
        head == line \o write_headers(node.headers) \o CRLF
        headCount == write_all_count(<<Dash, Dash>>) + write_all_count(boundary)
                     + write_all_count(CRLF) + count_headers(node.headers)
                     + write_all_count(CRLF)
        b == get_multipart_boundary(node.headers)
        sub == write_multipart(b.boundary, node.nodes, fl)
        one ==
          IF node.type = "Part"
            THEN [ok |-> TRUE, err |-> "", bytes |-> head \o node.body \o CRLF,
                  count |-> headCount + write_all_count(node.body)
                            + write_all_count(CRLF)]
          ELSE IF node.type = "File"
            THEN IF node.path \in DOMAIN fl
                   THEN [ok |-> TRUE, err |-> "", bytes |-> head \o fl[node.path] \o CRLF,
                         count |-> headCount + Len(fl[node.path])
                                   + write_all_count(CRLF)]
                   ELSE [ok |-> FALSE, err |-> "Io", bytes |-> head, count |-> headCount]
          ELSE IF ~b.ok
            THEN [ok |-> FALSE, err |-> b.err, bytes |-> line, count |-> 0]
          ELSE IF ~sub.ok
            THEN [ok |-> FALSE, err |-> sub.err, bytes |-> head \o sub.bytes,
                  count |-> headCount + sub.count]
          ELSE [ok |-> TRUE, err |-> "", bytes |-> head \o sub.bytes \o CRLF,
                count |-> headCount + sub.count + write_all_count(CRLF)]
        rest == write_multipart(boundary, Tail(nodes), fl)
    IN  IF ~one.ok
          THEN [ok |-> FALSE, err |-> one.err, bytes |-> one.bytes,
                count |-> one.count]
          ELSE [ok |-> rest.ok, err |-> rest.err, bytes |-> one.bytes \o rest.bytes,
                count |-> one.count + rest.count]

\* ---------------------------------------------------------- chunked writer

HexDigits ==
  <<"0", "1", "2", "3", "4", "5", "6", "7", "8", "9", "a", "b", "c", "d", "e", "f">>

\* format!("{:x}", n)
RECURSIVE Hex(_)
Hex(n) ==
  IF n < Len(HexDigits) THEN <<HexDigits[n + 1]>>
  ELSE Hex(n \div Len(HexDigits)) \o <<HexDigits[(n % Len(HexDigits)) + 1]>>

\* write_chunk: the length line, the bytes, CRLF
write_chunk(chunk) == Hex(Len(chunk)) \o CRLF \o chunk \o CRLF

\* The header loop of write_multipart_chunked: four chunks per header.
RECURSIVE chunk_headers(_)
chunk_headers(headers) ==
  IF headers = <<>> THEN <<>>
  ELSE write_chunk(headers[1].name) \o write_chunk(<<":", " ">>)
       \o write_chunk(headers[1].value) \o write_chunk(CRLF)
       \o chunk_headers(Tail(headers))

\* One call of Write::write on the output stream: the stream takes the whole
\* buffer, or (short) only its first byte; the count returned is not looked at.
stream_write(buf, short) == IF short /\ buf # <<>> THEN <<buf[1]>> ELSE buf

\* write_multipart_chunked: [ok, err, bytes], bytes being what reached the
\* stream.  A file is framed by hand: the length line from the file's
\* metadata, the content by io::copy, the closing CRLF by one `write` call.
RECURSIVE write_multipart_chunked(_, _, _, _)
write_multipart_chunked(boundary, nodes, fl, short) ==
  IF nodes = <<>>
    THEN [ok |-> TRUE, err |-> "",
          bytes |-> write_chunk(<<Dash, Dash>>) \o write_chunk(boundary)
                    \o write_chunk(<<Dash, Dash>>) \o write_chunk(<<>>)]
  ELSE
    LET node == nodes[1]
        line == write_chunk(<<Dash, Dash>>) \o write_chunk(boundary) \o write_chunk(CRLF)
        head == line \o chunk_headers(node.headers) \o write_chunk(CRLF)
        b == get_multipart_boundary(node.headers)
        sub == write_multipart_chunked(b.boundary, node.nodes, fl, short)
        one ==
          IF node.type = "Part"
            THEN [ok |-> TRUE, err |-> "",
                  bytes |-> head \o write_chunk(node.body) \o write_chunk(CRLF)]
          ELSE IF node.type = "File"
            THEN IF node.path \in DOMAIN fl
                   THEN [ok |-> TRUE, err |-> "",
                         bytes |-> head \o Hex(Len(fl[node.path])) \o CRLF
                                   \o fl[node.path] \o stream_write(CRLF, short)
                                   \o write_chunk(CRLF)]
                   ELSE [ok |-> FALSE, err |-> "Io", bytes |-> head]
          ELSE IF ~b.ok
            THEN [ok |-> FALSE, err |-> b.err, bytes |-> line]
          ELSE IF ~sub.ok
            THEN [ok |-> FALSE, err |-> sub.err, bytes |-> head \o sub.bytes]
          ELSE [ok |-> TRUE, err |-> "", bytes |-> head \o sub.bytes \o write_chunk(CRLF)]
        rest == write_multipart_chunked(boundary, Tail(nodes), fl, short)
    IN  IF ~one.ok
          THEN [ok |-> FALSE, err |-> one.err, bytes |-> one.bytes]
          ELSE [ok |-> rest.ok, err |-> rest.err, bytes |-> one.bytes \o rest.bytes]

\* --------------------------------------------------------- generated input
\* The wire form of a tree as tests.rs writes its inputs: every level is
\* delimited by "--" and the level's own boundary value, lines end in CRLF.

RECURSIVE Wire(_, _, _)
Wire(bvalue, nodes, fl) ==
  IF nodes = <<>> THEN <<Dash, Dash>> \o bvalue \o <<Dash, Dash>>
  ELSE
    LET node == nodes[1]
        head == <<Dash, Dash>> \o bvalue \o CRLF \o write_headers(node.headers) \o CRLF
        ct == GetContentType(node.headers)
        body == IF node.type = "Part" THEN node.body
                ELSE IF node.type = "File" THEN fl[node.path]
                ELSE Wire(ct[1].boundary[1], node.nodes, fl)
    IN  head \o body \o CRLF \o Wire(bvalue, Tail(nodes), fl)

\* The same message with LF line ends.
WithLF(s) == SelectSeq(s, LAMBDA c : c # CR)

\* The trees: leaves, and at most one nested multipart per tree.
TopBoundary == <<"a">>
KidBoundary == <<"b">>

TopHeaders ==
  << Header(ContentTypeName, <<"multipart/mixed; boundary=">> \o TopBoundary) >>

UserPath == [dir |-> 0, name |-> "upload"]

UserFiles == [p \in {UserPath} |-> <<"x">>]

PText == Part(<< Header(ContentTypeName, <<"text/plain">>) >>, <<"x", CR, LF, "x">>)
PName == Part(<< Header(ContentDispositionName, <<"form-data; name=n">>) >>, <<"x">>)
PFile == Part(<< Header(ContentDispositionName, <<"form-data; filename=f">>),
                 Header(ContentTypeName, <<"image/gif">>) >>, <<>>)
PBare == Part(<<>>, <<"x">>)
FAtt == FilePart_new(<< Header(ContentDispositionName, <<"attachment">>) >>, UserPath)

Leaves == {PText, PName, PFile, PBare, FAtt}
KidLeaves == {PText, PFile, PBare}

SeqsUpTo(S, n) == UNION {[1..k -> S] : k \in 0..n}

MultipartHeaders ==
  { << Header(ContentTypeName, <<"multipart/mixed; boundary=">> \o KidBoundary) >>,
    << Header(ContentDispositionName, <<"attachment; filename=f">>),
       Header(ContentTypeName, <<"multipart/mixed; boundary=">> \o KidBoundary) >> }

Multiparts ==
  {Multipart(h, kids) : h \in MultipartHeaders, kids \in SeqsUpTo(KidLeaves, MaxKids)}

Trees ==
  {t \in SeqsUpTo(Leaves \cup Multiparts, MaxParts) :
     Cardinality({i \in DOMAIN t : t[i].type = "Multipart"}) <= 1}

\* ------------------------------------------------------------------- state

VARIABLES
  tree,              \* the Node tree the input is made from
  always_use_files,  \* the flag of the parse call
  written,           \* what write_multipart put on the stream, once called
  stream_kind,       \* how the parsed stream was made: "written", "crlf", "lf", "preamble", ...
  input,             \* the bytes of the stream being parsed
  pos,               \* offset of the next unconsumed byte of the BufReader
  bufEnd,            \* offset up to which the BufReader's buffer is filled
  stack,             \* the activations of inner, innermost last
  result,            \* what read_multipart_body returned
  fs,                \* storage: [files, dirs]
  nextDir,           \* the next directory the temp-dir allocator hands out
  live,              \* FilePart values alive in the caller's hands
  origin,            \* per live value: how it was made and whether it was detached
  made,              \* paths a file was ever created at
  chunked,           \* what write_multipart_chunked put on the stream, once called
  resolved,          \* a call of get_multipart_boundary: its headers and its result
  generated,         \* a call of generate_boundary: the nonce and the boundary made of it
  calls,             \* the storage side of parse calls running side by side
  twin               \* what read_multipart_body returned, kept for read_multipart

vars == <<tree, always_use_files, written, stream_kind, input, pos, bufEnd, stack,
          result, fs, nextDir, live, origin, made, chunked, resolved, generated,
          calls, twin>>

parseVars == <<tree, always_use_files, written, stream_kind, input, pos, bufEnd,
               stack, result>>

lifeVars == <<live, origin, made>>

sideVars == <<chunked, resolved, generated, calls, twin>>

NoResult == [status |-> "none", err |-> "", nodes |-> <<>>]
Ok(nodes) == [status |-> "Ok", err |-> "", nodes |-> nodes]
Err(kind) == [status |-> "Err", err |-> kind, nodes |-> <<>>]

NotWritten == [done |-> FALSE, ok |-> FALSE, err |-> "", bytes |-> <<>>, count |-> 0]

NotChunked == [done |-> FALSE, short |-> FALSE, ok |-> FALSE, err |-> "", bytes |-> <<>>]

NotResolved == [done |-> FALSE, headers |-> <<>>, ok |-> FALSE, err |-> "", boundary |-> <<>>]

NotGenerated == [done |-> FALSE, nonce |-> <<>>, boundary |-> <<>>]

NoCalls == <<>>

\* One activation of inner(reader, headers, nodes, always_use_files).
Frame(headers) ==
  [pc |-> "boundary", headers |-> headers, boundary |-> <<>>, lt |-> <<>>,
   part_headers |-> <<>>, nodes |-> <<>>]

Top == stack[Len(stack)]

SetTop(f) == [stack EXCEPT ![Len(stack)] = f]

RECURSIVE AllNodes(_)
AllNodes(st) == IF st = <<>> THEN <<>> ELSE st[1].nodes \o AllNodes(Tail(st))

\* The preamble line some inputs carry before their first boundary.
Preamble == <<"x">> \o CRLF

Streams ==
  IF written.done
    THEN {[kind |-> "written", bytes |-> written.bytes]}
    ELSE LET w == Wire(TopBoundary, tree, fs.files)
         IN  {[kind |-> "crlf", bytes |-> w],
              [kind |-> "lf", bytes |-> WithLF(w)],
              [kind |-> "preamble", bytes |-> Preamble \o w]}

\* ------------------------------------------------------------ the BufReader

\* fill_buf: the buffer as it is when not empty, else one read of the
\* underlying stream (any short read, or all that is left; nothing at the end).
FillEnds ==
  IF pos < bufEnd THEN {bufEnd}
  ELSE {e \in pos..Len(input) :
          /\ (e = pos) <=> (pos = Len(input))
          /\ e - pos <= BufCap
          /\ (e - pos <= MaxShortRead \/ e = Len(input))}

\* Where the buffer ends after a scan that consumed up to offset p: unchanged
\* when the scan stayed inside it, else wherever the scan's last read ended.
ScanEnds(p) ==
  IF p <= bufEnd THEN {bufEnd}
  ELSE {e \in p..Len(input) : e - p <= MaxShortRead \/ e = Len(input)}

\* ---------------------------------------------------------------- the parser

Init ==
  /\ tree \in Trees
  /\ always_use_files \in BOOLEAN
  /\ written = NotWritten
  /\ stream_kind = "none"
  /\ input = <<>>
  /\ pos = 0
  /\ bufEnd = 0
  /\ stack = <<>>
  /\ result = NoResult
  /\ fs = [files |-> UserFiles, dirs |-> {}]
  /\ nextDir = 1
  /\ live = <<>>
  /\ origin = <<>>
  /\ made = {}
  /\ chunked = NotChunked
  /\ resolved = NotResolved
  /\ generated = NotGenerated
  /\ calls = NoCalls
  /\ twin = NoResult

\* The error return as it would be if the nodes built so far were kept from
\* being dropped (their files stay behind).
Fail_keeping_files(kind, fsNow) ==
  /\ result' = Err(kind)
  /\ stack' = <<>>
  /\ fs' = fsNow

\* The error return as it would be if an error ended the failing activation
\* only: the enclosing level goes on with the nodes read so far, and the
\* outermost level returns them.
Fail_at_this_level_only(kind, fsNow) ==
  /\ fs' = fsNow
  /\ IF Len(stack) = 1
       THEN /\ result' = Ok(stack[1].nodes)
            /\ stack' = <<>>
       ELSE LET outer == stack[Len(stack) - 1]
                node == Multipart(outer.part_headers, stack[Len(stack)].nodes)
            IN  /\ stack' = [SubSeq(stack, 1, Len(stack) - 1) EXCEPT
                               ![Len(stack) - 1] =
                                 [outer EXCEPT !.pc = "return",
                                               !.nodes = Append(outer.nodes, node)]]
                /\ UNCHANGED result

\* An error return of inner: `?` unwinds every activation, read_multipart_body
\* returns the error and its Vec<Node> is dropped, FileParts included.
Fail(kind, fsNow) ==
  /\ result' = Err(kind)
  /\ stack' = <<>>
  /\ fs' = DropNodes(AllNodes(stack), fsNow)

\* write_multipart(stream, boundary, nodes)
WriteMultipart ==
  /\ ~written.done /\ result = NoResult /\ stack = <<>>
  /\ LET w == write_multipart(TopBoundary, tree, fs.files)
     IN  written' = [done |-> TRUE, ok |-> w.ok, err |-> w.err,
                     bytes |-> w.bytes, count |-> w.count]
  /\ UNCHANGED <<tree, always_use_files, stream_kind, input, pos, bufEnd, stack,
                 result, fs, nextDir, lifeVars, sideVars>>

\* read_multipart_body(stream, headers, always_use_files), up to the call of inner
ReadMultipartBody ==
  /\ result = NoResult /\ stack = <<>>
  /\ \E s \in Streams :
       /\ stream_kind' = s.kind
       /\ input' = s.bytes
  /\ pos' = 0
  /\ bufEnd' = 0
  /\ stack' = <<Frame(TopHeaders)>>
  /\ UNCHANGED <<tree, always_use_files, written, result, fs, nextDir, lifeVars, sideVars>>

\* inner, lines 195-201: resolve the boundary, read past the first one
FirstBoundary ==
  /\ stack # <<>> /\ Top.pc = "boundary"
  /\ \E b \in {get_multipart_boundary(Top.headers)} :
     \E r \in {stream_until_token(input, pos, b.boundary)} :
         IF ~b.ok
           THEN Fail(b.err, fs) /\ UNCHANGED <<pos, bufEnd>>
         ELSE IF ~r.found
           THEN Fail("EofBeforeFirstBoundary", fs) /\ pos' = r.pos /\ bufEnd' = r.pos
         ELSE /\ pos' = r.pos
              /\ bufEnd' \in ScanEnds(r.pos)
              /\ stack' = SetTop([Top EXCEPT !.pc = "terminator", !.boundary = b.boundary])
              /\ UNCHANGED <<result, fs>>
  /\ UNCHANGED <<tree, always_use_files, written, stream_kind, input, nextDir, lifeVars, sideVars>>

\* inner, lines 203-223: the level's line terminator, from a look at the buffer
LineTerminator ==
  /\ stack # <<>> /\ Top.pc = "terminator"
  /\ \E e \in FillEnds :
       LET peeker == SubSeq(input, pos + 1, e)
       IN  /\ bufEnd' = e
           /\ IF Len(peeker) > 1 /\ SubSeq(peeker, 1, 2) = CRLF
                THEN /\ stack' = SetTop([Top EXCEPT !.pc = "peek", !.lt = CRLF])
                     /\ UNCHANGED <<result, fs>>
              ELSE IF Len(peeker) > 0 /\ peeker[1] = LF
                THEN /\ stack' = SetTop([Top EXCEPT !.pc = "peek", !.lt = <<LF>>])
                     /\ UNCHANGED <<result, fs>>
              ELSE Fail("NoCrLfAfterBoundary", fs)
  /\ UNCHANGED <<tree, always_use_files, written, stream_kind, input, pos, nextDir,
                 lifeVars, sideVars>>

\* inner, lines 226-232: "--" ahead ends the level
Peek ==
  /\ stack # <<>> /\ Top.pc = "peek"
  /\ \E e \in FillEnds :
       LET peeker == SubSeq(input, pos + 1, e)
       IN  /\ bufEnd' = e
           /\ IF Len(peeker) >= 2 /\ SubSeq(peeker, 1, 2) = <<Dash, Dash>>
                THEN stack' = SetTop([Top EXCEPT !.pc = "return"])
                ELSE stack' = SetTop([Top EXCEPT !.pc = "lt"])
  /\ UNCHANGED <<tree, always_use_files, written, stream_kind, input, pos, result, fs,
                 nextDir, lifeVars, sideVars>>

\* The return at the closing "--" as it would be if the loop went on instead.
Return_going_on ==
  /\ stack # <<>> /\ Top.pc = "return"
  /\ stack' = SetTop([Top EXCEPT !.pc = "peek"])
  /\ UNCHANGED <<tree, always_use_files, written, stream_kind, input, pos, bufEnd, fs,
                 result, nextDir, lifeVars, sideVars>>

\* inner, line 230 `return Ok(())`: to read_multipart_body (lines 184-185), or
\* to the enclosing activation (lines 271-273), which appends the Multipart
Return ==
  /\ stack # <<>> /\ Top.pc = "return"
  /\ IF Len(stack) = 1
       THEN /\ result' = Ok(Top.nodes)
            /\ stack' = <<>>
       ELSE LET outer == stack[Len(stack) - 1]
                node == Multipart(outer.part_headers, Top.nodes)
            IN  /\ stack' = [SubSeq(stack, 1, Len(stack) - 1) EXCEPT
                               ![Len(stack) - 1] =
                                 [outer EXCEPT !.pc = "peek",
                                               !.nodes = Append(outer.nodes, node)]]
                /\ UNCHANGED result
  /\ UNCHANGED <<tree, always_use_files, written, stream_kind, input, pos, bufEnd, fs,
                 nextDir, lifeVars, sideVars>>

\* inner, lines 234-236: the line terminator after the boundary
ReadLineTerminator ==
  /\ stack # <<>> /\ Top.pc = "lt"
  /\ LET r == stream_until_token(input, pos, Top.lt)
     IN  /\ pos' = r.pos
         /\ IF ~r.found
              THEN Fail("NoCrLfAfterBoundary", fs) /\ bufEnd' = r.pos
              ELSE /\ bufEnd' \in ScanEnds(r.pos)
                   /\ stack' = SetTop([Top EXCEPT !.pc = "headers"])
                   /\ UNCHANGED <<result, fs>>
  /\ UNCHANGED <<tree, always_use_files, written, stream_kind, input, nextDir, lifeVars, sideVars>>

\* The header stage as it would be if a block the parser does not report
\* complete were read on and parsed again instead of ending the call.
ReadHeaders_trying_again ==
  /\ stack # <<>> /\ Top.pc = "headers"
  /\ LET ltlt == Top.lt \o Top.lt
         r == stream_until_token(input, pos, ltlt)
         parsed == parse_headers(r.copied \o ltlt)
     IN  /\ pos' = r.pos
         /\ IF ~r.found
              THEN Fail("EofInPartHeaders", fs) /\ bufEnd' = r.pos
            ELSE IF parsed.status # "Complete"
              THEN /\ bufEnd' \in ScanEnds(r.pos)
                   /\ stack' = SetTop([Top EXCEPT !.pc = "headers"])
                   /\ UNCHANGED <<result, fs>>
            ELSE /\ bufEnd' \in ScanEnds(r.pos)
                 /\ stack' = SetTop([Top EXCEPT !.pc = "classify",
                                                !.part_headers = parsed.headers])
                 /\ UNCHANGED <<result, fs>>
  /\ UNCHANGED <<tree, always_use_files, written, stream_kind, input, nextDir, lifeVars, sideVars>>

\* inner, lines 238-256: the part's header block, parsed
ReadHeaders ==
  /\ stack # <<>> /\ Top.pc = "headers"
  /\ \E ltlt \in {Top.lt \o Top.lt} :
     \E r \in {stream_until_token(input, pos, ltlt)} :
     \E buf \in {r.copied \o ltlt} :
     \E parsed \in {parse_headers(buf)} :
         /\ pos' = r.pos
         /\ IF ~r.found
              THEN Fail("EofInPartHeaders", fs) /\ bufEnd' = r.pos
            ELSE IF parsed.status = "Partial"
              THEN Fail("PartialHeaders", fs) /\ bufEnd' \in ScanEnds(r.pos)
            ELSE IF parsed.status = "Error"
              THEN Fail("Httparse", fs) /\ bufEnd' \in ScanEnds(r.pos)
            ELSE /\ bufEnd' \in ScanEnds(r.pos)
                 /\ stack' = SetTop([Top EXCEPT !.pc = "classify",
                                                !.part_headers = parsed.headers])
                 /\ UNCHANGED <<result, fs>>
  /\ UNCHANGED <<tree, always_use_files, written, stream_kind, input, nextDir, lifeVars, sideVars>>

\* The nested test as it would be if the file classification came first.
nested_unless_file(part_headers) ==
  LET ct == GetContentType(part_headers)
      cd == GetContentDisposition(part_headers)
  IN  /\ cd = None
      /\ IF ct # None THEN ct[1].top = "multipart" ELSE FALSE

\* inner, lines 258-267
nested(part_headers) ==
  LET ct == GetContentType(part_headers)
  IN  IF ct # None THEN ct[1].top = "multipart" ELSE FALSE

\* The classification as it would be without the filename-parameter test.
is_file_by_disposition_only(part_headers, auf) ==
  auf \/ LET cd == GetContentDisposition(part_headers)
         IN  IF cd # None THEN cd[1].disposition = "Attachment" ELSE FALSE

\* inner, lines 276-290
is_file(part_headers, auf) ==
  auf \/ LET cd == GetContentDisposition(part_headers)
         IN  IF cd # None
               THEN IF cd[1].disposition = "Attachment" THEN TRUE
                    ELSE cd[1].filename
               ELSE FALSE

\* inner, lines 268-274: recurse into a nested multipart
Recurse ==
  /\ stack # <<>> /\ Top.pc = "classify"
  /\ nested(Top.part_headers)
  /\ stack' = Append(SetTop([Top EXCEPT !.pc = "recursing"]), Frame(Top.part_headers))
  /\ UNCHANGED <<tree, always_use_files, written, stream_kind, input, pos, bufEnd,
                 result, fs, nextDir, lifeVars, sideVars>>

\* The file branch as it would be if the node were pushed as created, before
\* its content was streamed and its size recorded.
StreamFile_pushing_the_node_first ==
  /\ stack # <<>> /\ Top.pc = "classify"
  /\ ~nested(Top.part_headers)
  /\ is_file(Top.part_headers, always_use_files)
  /\ LET filepart == FilePart_create(Top.part_headers, nextDir)
         r == stream_until_token(input, pos, Top.lt \o Top.boundary)
         stored == [files |-> PutFile(fs.files, filepart.path, r.copied),
                    dirs |-> fs.dirs \cup {nextDir}]
     IN  /\ pos' = r.pos
         /\ nextDir' = nextDir + 1
         /\ IF ~r.found
              THEN Fail("EofInFile", FilePart_drop(filepart, stored)) /\ bufEnd' = r.pos
              ELSE /\ bufEnd' \in ScanEnds(r.pos)
                   /\ fs' = stored
                   /\ stack' = SetTop([Top EXCEPT
                        !.pc = "peek", !.nodes = Append(Top.nodes, filepart)])
                   /\ UNCHANGED result
  /\ UNCHANGED <<tree, always_use_files, written, stream_kind, input, lifeVars, sideVars>>

\* inner, lines 291-305: a file part, streamed to a fresh temp file
StreamFile ==
  /\ stack # <<>> /\ Top.pc = "classify"
  /\ ~nested(Top.part_headers)
  /\ is_file(Top.part_headers, always_use_files)
  /\ \E filepart \in {FilePart_create(Top.part_headers, nextDir)} :
     \E r \in {stream_until_token(input, pos, Top.lt \o Top.boundary)} :
     \E stored \in {[files |-> PutFile(fs.files, filepart.path, r.copied),
                     dirs |-> fs.dirs \cup {nextDir}]} :
     \E read \in {Len(r.copied)} :
         /\ pos' = r.pos
         /\ nextDir' = nextDir + 1
         /\ IF ~r.found
              THEN Fail("EofInFile", FilePart_drop(filepart, stored)) /\ bufEnd' = r.pos
              ELSE /\ bufEnd' \in ScanEnds(r.pos)
                   /\ fs' = stored
                   /\ stack' = SetTop([Top EXCEPT
                        !.pc = "peek",
                        !.nodes = Append(Top.nodes, [filepart EXCEPT !.size = Some(read)])])
                   /\ UNCHANGED result
  /\ UNCHANGED <<tree, always_use_files, written, stream_kind, input, lifeVars, sideVars>>

\* The inline read as it would be if its failure were reported as a file's.
ReadPart_failing_as_a_file ==
  /\ stack # <<>> /\ Top.pc = "classify"
  /\ ~nested(Top.part_headers)
  /\ ~is_file(Top.part_headers, always_use_files)
  /\ LET r == stream_until_token(input, pos, Top.lt \o Top.boundary)
     IN  /\ pos' = r.pos
         /\ IF ~r.found
              THEN Fail("EofInFile", fs) /\ bufEnd' = r.pos
              ELSE /\ bufEnd' \in ScanEnds(r.pos)
                   /\ stack' = SetTop([Top EXCEPT
                        !.pc = "peek",
                        !.nodes = Append(Top.nodes, Part(Top.part_headers, r.copied))])
                   /\ UNCHANGED <<result, fs>>
  /\ UNCHANGED <<tree, always_use_files, written, stream_kind, input, nextDir, lifeVars, sideVars>>

\* The inline read as it would be without `buf.truncate(0)` before the scan:
\* the header block, still in buf, stays in front of the content.
ReadPart_without_truncate ==
  /\ stack # <<>> /\ Top.pc = "classify"
  /\ ~nested(Top.part_headers)
  /\ ~is_file(Top.part_headers, always_use_files)
  /\ LET r == stream_until_token(input, pos, Top.lt \o Top.boundary)
         buf == write_headers(Top.part_headers) \o Top.lt
     IN  /\ pos' = r.pos
         /\ IF ~r.found
              THEN Fail("EofInPart", fs) /\ bufEnd' = r.pos
              ELSE /\ bufEnd' \in ScanEnds(r.pos)
                   /\ stack' = SetTop([Top EXCEPT
                        !.pc = "peek",
                        !.nodes = Append(Top.nodes,
                                         Part(Top.part_headers, buf \o r.copied))])
                   /\ UNCHANGED <<result, fs>>
  /\ UNCHANGED <<tree, always_use_files, written, stream_kind, input, nextDir, lifeVars, sideVars>>

\* inner, lines 306-315: an inline part, read into memory
ReadPart ==
  /\ stack # <<>> /\ Top.pc = "classify"
  /\ ~nested(Top.part_headers)
  /\ ~is_file(Top.part_headers, always_use_files)
  /\ LET r == stream_until_token(input, pos, Top.lt \o Top.boundary)
     IN  /\ pos' = r.pos
         /\ IF ~r.found
              THEN Fail("EofInPart", fs) /\ bufEnd' = r.pos
              ELSE /\ bufEnd' \in ScanEnds(r.pos)
                   /\ stack' = SetTop([Top EXCEPT
                        !.pc = "peek",
                        !.nodes = Append(Top.nodes, Part(Top.part_headers, r.copied))])
                   /\ UNCHANGED <<result, fs>>
  /\ UNCHANGED <<tree, always_use_files, written, stream_kind, input, nextDir, lifeVars, sideVars>>

Next ==
  \/ WriteMultipart
  \/ ReadMultipartBody
  \/ FirstBoundary
  \/ LineTerminator
  \/ Peek
  \/ Return
  \/ ReadLineTerminator
  \/ ReadHeaders
  \/ Recurse
  \/ StreamFile
  \/ ReadPart

Spec == Init /\ [][Next]_vars

\* ------------------------------------------------------- reading the claims

Finished == result.status # "none"

\* The stream is a well-formed message made from `tree`, whole.
WellFormedStream == stream_kind \in {"crlf", "lf", "preamble"}

\* The body bytes a node carries: in memory, or in its file.
Content(node) ==
  IF node.type = "File"
    THEN IF node.path \in DOMAIN fs.files THEN fs.files[node.path] ELSE <<"missing">>
    ELSE node.body

\* The bytes of a source node's body as they stand on the stream.
SentBody(node) ==
  LET b == IF node.type = "File" THEN UserFiles[node.path] ELSE node.body
  IN  IF stream_kind = "lf" THEN WithLF(b) ELSE b

\* Parsed node n is built from source node t: a leaf with t's headers and
\* body, or a Multipart with t's headers whose children are built from t's.
RECURSIVE BuiltFrom(_, _)
BuiltFrom(n, t) ==
  /\ n.headers = t.headers
  /\ IF t.type = "Multipart"
       THEN /\ n.type = "Multipart"
            /\ Len(n.nodes) = Len(t.nodes)
            /\ \A i \in DOMAIN t.nodes : BuiltFrom(n.nodes[i], t.nodes[i])
       ELSE /\ n.type \in {"Part", "File"}
            /\ Content(n) = SentBody(t)

AllBuiltFrom(ns, ts) ==
  /\ Len(ns) = Len(ts)
  /\ \A i \in DOMAIN ts : BuiltFrom(ns[i], ts[i])

Flat(t) == \A i \in DOMAIN t : t[i].type # "Multipart"

\* Every node the parse has produced so far, at any depth.
RECURSIVE Deep(_)
Deep(nodes) ==
  IF nodes = <<>> THEN <<>>
  ELSE <<nodes[1]>> \o Deep(nodes[1].nodes) \o Deep(Tail(nodes))

Produced == Deep(AllNodes(stack) \o result.nodes)

\* C1: for every well-formed input with N >= 0 non-nested parts the parse
\* succeeds and returns exactly N nodes, the i-th built from the i-th part.
C1_FlatInputYieldsItsParts ==
  (Finished /\ WellFormedStream /\ Flat(tree))
    => (result.status = "Ok" /\ AllBuiltFrom(result.nodes, tree))

\* C2: after a nested multipart the outer level resumes at its own next
\* boundary: the siblings that follow the nested part are parsed and appended
\* after the Multipart node, so a successful parse returns as many top-level
\* nodes as the message has top-level parts.
C2_SiblingsAfterNestedAreParsed ==
  (result.status = "Ok" /\ WellFormedStream
     /\ \E i \in DOMAIN result.nodes : result.nodes[i].type = "Multipart")
    => \A i \in DOMAIN result.nodes :
         result.nodes[i].type = "Multipart"
           => \E j \in DOMAIN tree :
                /\ tree[j].type = "Multipart"
                /\ Len(result.nodes) - i = Len(tree) - j

\* C3: write_multipart with boundary B, then read_multipart_body under headers
\* declaring B, gives back a tree of the same shape with the same headers and
\* body bytes in every node.
C3_RoundTrip ==
  (Finished /\ stream_kind = "written" /\ written.ok)
    => (result.status = "Ok" /\ AllBuiltFrom(result.nodes, tree))

\* C5: a non-nested part is file-backed exactly when always_use_files is set,
\* or its Content-Disposition is Attachment, or that Content-Disposition has a
\* filename parameter; otherwise it is an inline Part.
C5_FileIffFlagOrAttachmentOrFilename ==
  \A i \in DOMAIN Produced :
    LET n == Produced[i]
        cd == GetContentDisposition(n.headers)
    IN  n.type # "Multipart"
          => /\ n.type \in {"File", "Part"}
             /\ (n.type = "File")
                  <=> \/ always_use_files
                      \/ cd # None /\ cd[1].disposition = "Attachment"
                      \/ cd # None /\ cd[1].filename

C5_Witness ==
  /\ result.status = "Ok" /\ ~always_use_files
  /\ \E i, j \in DOMAIN result.nodes :
       LET f == GetContentDisposition(result.nodes[i].headers)
           p == GetContentDisposition(result.nodes[j].headers)
       IN  /\ result.nodes[i].type = "File"
           /\ f # None /\ f[1].disposition = "FormData" /\ f[1].filename
           /\ result.nodes[j].type = "Part"
           /\ p # None /\ p[1].disposition = "FormData" /\ ~p[1].filename

\* ---------------------------------------------------------- truncated input

\* Offset at which the final boundary "--" B "--" of a whole message starts.
FinalBoundaryStart(w) == Len(w) - (2 + Len(TopBoundary) + 2)

\* read_multipart_body on a well-formed message cut off after `cut` bytes
ReadTruncated ==
  /\ result = NoResult /\ stack = <<>>
  /\ LET w == Wire(TopBoundary, tree, fs.files)
     IN  \E cut \in 0..Len(w) :
           /\ input' = SubSeq(w, 1, cut)
           /\ stream_kind' = IF cut < FinalBoundaryStart(w) THEN "truncated"
                             ELSE IF cut < Len(w) THEN "clipped"
                             ELSE "whole"
  /\ pos' = 0
  /\ bufEnd' = 0
  /\ stack' = <<Frame(TopHeaders)>>
  /\ UNCHANGED <<tree, always_use_files, written, result, fs, nextDir, lifeVars, sideVars>>

NextTrunc ==
  \/ ReadTruncated
  \/ FirstBoundary
  \/ LineTerminator
  \/ Peek
  \/ Return
  \/ ReadLineTerminator
  \/ ReadHeaders
  \/ Recurse
  \/ StreamFile
  \/ ReadPart

SpecTrunc == Init /\ [][NextTrunc]_vars

TruncationKinds ==
  {"EofBeforeFirstBoundary", "NoCrLfAfterBoundary", "EofInPartHeaders",
   "EofInFile", "EofInPart"}

\* C4: a well-formed input (nested multiparts included) cut off at any point
\* before its final boundary parses to a truncation-kind error, never to a
\* successful node list.
C4_TruncatedInputFails ==
  (Finished /\ stream_kind = "truncated")
    => (result.status = "Err" /\ result.err \in TruncationKinds)

\* ------------------------------------------------- nested parts and files

IsMultipartType(headers) ==
  LET lines == SelectSeq(headers, LAMBDA h : h.name = ContentTypeName)
  IN  Len(lines) = 1 /\ lines[1].value # <<>>
        /\ lines[1].value[1] \in {"multipart/mixed", "multipart/mixed; boundary="}

FileNodes == SelectSeq(Produced, LAMBDA n : n.type = "File")

\* C6: a part whose Content-Type is multipart/* never becomes a Part or a
\* File, whatever its Content-Disposition and always_use_files: it is the
\* Multipart node of its level, and no temp directory or file is made for it
\* (every temp directory handed out belongs to a File node).
C6_MultipartTakesPrecedence ==
  /\ \A i \in DOMAIN Produced :
       (Produced[i].type = "Multipart") <=> IsMultipartType(Produced[i].headers)
  /\ \A k \in 1..Len(stack) - 1 :
       stack[k].pc = "recursing" /\ IsMultipartType(stack[k].part_headers)
  /\ result.status # "Err" =>
       /\ nextDir - 1 = Len(FileNodes)
       /\ fs.dirs = {FileNodes[i].tempdir[1] : i \in DOMAIN FileNodes}

C6_Witness ==
  /\ result.status = "Ok" /\ always_use_files
  /\ \E i \in DOMAIN result.nodes :
       LET n == result.nodes[i]
       IN  /\ n.type = "Multipart"
           /\ GetContentDisposition(n.headers) # None
           /\ GetContentDisposition(n.headers)[1].disposition = "Attachment"
           /\ n.nodes # <<>>
           /\ \A j \in DOMAIN n.nodes : n.nodes[j].type = "File"
           /\ Len(n.nodes) = nextDir - 1

\* C7: a nested multipart part of the input is returned as one Multipart node
\* with that part's headers whose children are exactly the parts of the
\* embedded sub-message, same count and order.
C7_ChildrenAreTheSubMessage ==
  (result.status = "Ok" /\ WellFormedStream)
    => \A i \in DOMAIN result.nodes :
         result.nodes[i].type = "Multipart"
           => \E j \in DOMAIN tree :
                tree[j].type = "Multipart" /\ BuiltFrom(result.nodes[i], tree[j])

\* The bytes of s from offset a (exclusive) to offset b (inclusive), if there.
Between(s, a, b) ==
  IF 0 <= a /\ a <= b /\ b <= Len(s) THEN SubSeq(s, a + 1, b) ELSE <<"beyond the end">>

\* C8: when a file part has been streamed, FilePart.size is the number of
\* bytes between the blank line that ends the part's header block and the
\* first following line-terminator-plus-boundary, the terminator and boundary
\* not counted, and the backing file holds exactly those bytes.
C8_SizeIsContentLength ==
  [][ (stack # <<>> /\ Top.pc = "classify" /\ nextDir' # nextDir /\ stack' # <<>>)
        => LET token == Top.lt \o Top.boundary
               blank == Top.lt \o Top.lt
               node == stack'[Len(stack')].nodes[Len(stack'[Len(stack')].nodes)]
               size == node.size[1]
           IN  /\ node.type = "File"
               /\ node.size # None
               /\ Between(input, pos - Len(blank), pos) = blank
               /\ Between(input, pos + size, pos + size + Len(token)) = token
               /\ \A q \in pos..(pos + size - 1) :
                    Between(input, q, q + Len(token)) # token
               /\ node.path \in DOMAIN fs'.files
               /\ fs'.files[node.path] = Between(input, pos, pos + size)
               /\ pos' = pos + size + Len(token)
    ]_vars

C8_Witness ==
  /\ result.status = "Ok"
  /\ \E i \in DOMAIN result.nodes :
       /\ result.nodes[i].type = "File"
       /\ result.nodes[i].size = Some(4)
       /\ fs.files[result.nodes[i].path] = <<"x", CR, LF, "x">>

\* ------------------------------------------------------ FilePart lifecycle
\* The caller's own use of FilePart values: create, File::create on the path
\* (as inner does, line 294), new, clone, do_not_delete_on_drop and drop.

RemoveAt(q, i) == SubSeq(q, 1, i - 1) \o SubSeq(q, i + 1, Len(q))

InitLife ==
  /\ tree = <<>>
  /\ always_use_files = FALSE
  /\ written = NotWritten
  /\ stream_kind = "none"
  /\ input = <<>>
  /\ pos = 0
  /\ bufEnd = 0
  /\ stack = <<>>
  /\ result = NoResult
  /\ fs = [files |-> UserFiles, dirs |-> {}]
  /\ nextDir = 1
  /\ live = <<>>
  /\ origin = <<>>
  /\ made = {}
  /\ chunked = NotChunked
  /\ resolved = NotResolved
  /\ generated = NotGenerated
  /\ calls = NoCalls
  /\ twin = NoResult

\* FilePart::create(headers)
Create ==
  /\ Len(live) < MaxLive /\ nextDir <= MaxDirs
  /\ live' = Append(live, FilePart_create(<<>>, nextDir))
  /\ origin' = Append(origin, [by |-> "create", detached |-> FALSE])
  /\ fs' = [fs EXCEPT !.dirs = @ \cup {nextDir}]
  /\ nextDir' = nextDir + 1
  /\ UNCHANGED <<parseVars, sideVars, made>>

\* File::create(filepart.path.clone()) and the write of the content
CreateFile ==
  /\ \E i \in DOMAIN live :
       /\ live[i].path.dir = 0 \/ live[i].path.dir \in fs.dirs
       /\ fs' = [fs EXCEPT !.files = PutFile(@, live[i].path, <<"x">>)]
       /\ made' = made \cup {live[i].path}
  /\ UNCHANGED <<parseVars, sideVars, nextDir, live, origin>>

\* FilePart::new(headers, path), on the caller's file or on a path already in use
New ==
  /\ Len(live) < MaxLive
  /\ \E p \in {UserPath} \cup {live[i].path : i \in DOMAIN live} :
       live' = Append(live, FilePart_new(<<>>, p))
  /\ origin' = Append(origin, [by |-> "new", detached |-> FALSE])
  /\ UNCHANGED <<parseVars, sideVars, fs, nextDir, made>>

\* filepart.clone()
Clone ==
  /\ Len(live) < MaxLive
  /\ \E i \in DOMAIN live :
       /\ live' = Append(live, FilePart_clone(live[i]))
       /\ origin' = Append(origin, origin[i])
  /\ UNCHANGED <<parseVars, sideVars, fs, nextDir, made>>

\* filepart.do_not_delete_on_drop()
DoNotDeleteOnDrop ==
  /\ \E i \in DOMAIN live :
       /\ live' = [live EXCEPT ![i] = do_not_delete_on_drop(live[i])]
       /\ origin' = [origin EXCEPT ![i].detached = TRUE]
  /\ UNCHANGED <<parseVars, sideVars, fs, nextDir, made>>

\* the value goes out of scope
Drop ==
  /\ \E i \in DOMAIN live :
       /\ fs' = FilePart_drop(live[i], fs)
       /\ live' = RemoveAt(live, i)
       /\ origin' = RemoveAt(origin, i)
  /\ UNCHANGED <<parseVars, sideVars, nextDir, made>>

NextLife ==
  \/ Create
  \/ CreateFile
  \/ New
  \/ Clone
  \/ DoNotDeleteOnDrop
  \/ Drop

SpecLife == InitLife /\ [][NextLife]_vars

\* C9: while an owning (non-detached) FilePart value is alive, its backing
\* file, once written, still exists: nothing but the end of that value's own
\* lifetime deletes it.
C9_OwnedFileExistsWhileAlive ==
  \A i \in DOMAIN live :
    (live[i].tempdir # None /\ live[i].path \in made)
      => live[i].path \in DOMAIN fs.files

\* C10: dropping a FilePart removes its backing file and its temp directory
\* exactly when the value comes from FilePart::create and
\* do_not_delete_on_drop was not called on it; a detached value, or one from
\* FilePart::new, leaves storage as it is.  (A clone comes from where the
\* value it copies came from, and is detached if that value was.)
C10_DropDeletesIffCreatedAndNotDetached ==
  [][ \A i \in DOMAIN live :
        (live' = RemoveAt(live, i) /\ origin' = RemoveAt(origin, i))
          => IF origin[i].by = "create" /\ ~origin[i].detached
               THEN /\ live[i].path \notin DOMAIN fs'.files
                    /\ live[i].path.dir \notin fs'.dirs
               ELSE fs' = fs
    ]_vars

C10_Witness ==
  /\ live = <<>>
  /\ nextDir = 3
  /\ made = {[dir |-> 1, name |-> "nonce"], [dir |-> 2, name |-> "nonce"]}
  /\ fs.dirs = {2}
  /\ DOMAIN fs.files = {UserPath, [dir |-> 2, name |-> "nonce"]}

\* ------------------------------------------------------------ failed parses

\* C11: when a parse call has failed, at whatever depth, every temp file and
\* temp directory the call made before the failure is gone once the error is
\* returned: storage holds the caller's own files and nothing else.
C11_FailedParseLeavesNoTempFiles ==
  result.status = "Err" => (fs.dirs = {} /\ fs.files = UserFiles)

C11_Witness ==
  /\ result.status = "Err" /\ result.err = "EofInFile"
  /\ nextDir = 3 /\ fs.dirs = {}
  /\ \E i \in DOMAIN tree : tree[i].type = "Multipart"

\* The token the innermost activation scans for next, and whether the input
\* ends before it.
PendingToken ==
  IF Top.pc = "boundary" THEN get_multipart_boundary(Top.headers).boundary
  ELSE IF Top.pc = "lt" THEN Top.lt
  ELSE IF Top.pc = "headers" THEN Top.lt \o Top.lt
  ELSE Top.lt \o Top.boundary

ScanRunsOut ==
  /\ stack # <<>>
  /\ \/ Top.pc \in {"boundary", "lt", "headers"}
     \/ Top.pc = "classify" /\ ~nested(Top.part_headers)
  /\ ~stream_until_token(input, pos, PendingToken).found

\* C12: a failure inside a parse call, at any depth, ends the whole call in
\* that step: every activation is gone, the caller gets an error and no node
\* list, and the error, once returned, stays the call's one result.
C12_FailureAbortsTheWholeCall ==
  [][ /\ ScanRunsOut => result'.status = "Err"
      /\ result'.status = "Err"
           => (stack' = <<>> /\ result'.nodes = <<>> /\ result'.err # "")
      /\ result.status = "Err" => result' = result
    ]_vars

C12_Witness ==
  /\ result.status = "Err" /\ result.err = "EofInPartHeaders"
  /\ stream_kind = "crlf" /\ bufEnd = Len(input)
  /\ Len(tree) = 2 /\ tree[1] = PText
  /\ tree[2].type = "Multipart" /\ tree[2].nodes = <<PBare>>

\* ---------------------------------------------------------------- the writers

\* write_multipart_chunked(stream, boundary, nodes), on a stream whose `write`
\* takes whole buffers or (short) a byte at a time
WriteMultipartChunked ==
  /\ ~chunked.done /\ result = NoResult /\ stack = <<>>
  /\ \E short \in BOOLEAN :
       LET w == write_multipart_chunked(TopBoundary, tree, fs.files, short)
       IN  chunked' = [done |-> TRUE, short |-> short, ok |-> w.ok, err |-> w.err,
                       bytes |-> w.bytes]
  /\ UNCHANGED <<parseVars, fs, nextDir, lifeVars, resolved, generated, calls, twin>>

NextWrite ==
  \/ WriteMultipart
  \/ WriteMultipartChunked

SpecWrite == Init /\ [][NextWrite]_vars

\* Reading a chunked stream: the value of a length line
RECURSIVE HexValue(_)
HexValue(digits) ==
  IF digits = <<>> THEN 0
  ELSE HexValue(SubSeq(digits, 1, Len(digits) - 1)) * Len(HexDigits)
       + (CHOOSE k \in 0..(Len(HexDigits) - 1) : HexDigits[k + 1] = digits[Len(digits)])

IsHex(digits) ==
  /\ digits # <<>>
  /\ \A j \in DOMAIN digits : \E k \in DOMAIN HexDigits : HexDigits[k] = digits[j]

\* The chunks of s from offset i on, each a length line, CRLF, that many
\* bytes, CRLF: [ok, chunks], ok when s is chunks and nothing else.
RECURSIVE ReadChunks(_, _, _)
ReadChunks(s, i, acc) ==
  IF i >= Len(s) THEN [ok |-> TRUE, chunks |-> acc]
  ELSE
    LET crs == {j \in (i + 1)..Len(s) : s[j] = CR}
        cr == IF crs = {} THEN Len(s) + 1 ELSE Min(crs)
        digits == SubSeq(s, i + 1, cr - 1)
        n == IF IsHex(digits) THEN HexValue(digits) ELSE 0
        last == cr + 1 + n
        framed == /\ IsHex(digits)
                  /\ last + 2 <= Len(s)
                  /\ s[cr + 1] = LF
                  /\ s[last + 1] = CR /\ s[last + 2] = LF
    IN  IF framed
          THEN ReadChunks(s, last + 2, Append(acc, SubSeq(s, cr + 2, last)))
          ELSE [ok |-> FALSE, chunks |-> acc]

RECURSIVE Flatten(_)
Flatten(chunks) == IF chunks = <<>> THEN <<>> ELSE chunks[1] \o Flatten(Tail(chunks))

\* C13: the stream write_multipart_chunked emits is a sequence of HTTP chunks
\* whose payloads, put together in order, are byte for byte the stream
\* write_multipart emits for the same boundary and tree.
C13_ChunkPayloadsArePlainStream ==
  (chunked.done /\ chunked.ok)
    => LET c == ReadChunks(chunked.bytes, 0, <<>>)
           plain == write_multipart(TopBoundary, tree, fs.files)
       IN  c.ok /\ plain.ok /\ Flatten(c.chunks) = plain.bytes

\* C14: in the output of one write_multipart_chunked call a zero-length chunk
\* comes exactly once, as the last chunk, after the top-level final boundary.
C14_OneZeroChunkAtTheEnd ==
  (chunked.done /\ chunked.ok /\ ~chunked.short)
    => LET c == ReadChunks(chunked.bytes, 0, <<>>).chunks
       IN  /\ c # <<>>
           /\ \A i \in DOMAIN c : (c[i] = <<>>) <=> (i = Len(c))

\* What the claim says write_multipart emits for one tree: per node the
\* delimiter line, the header lines, the empty line, the body and CRLF, then
\* the closing delimiter; a nested level is delimited by its own resolved
\* boundary, the bytes get_multipart_boundary returns for the node's headers.
RECURSIVE Emitted(_, _)
Emitted(boundary, nodes) ==
  LET HeaderLine(h) == h.name \o <<":", " ">> \o h.value \o CRLF
      Body(node) ==
        IF node.type = "Part" THEN node.body
        ELSE IF node.type = "File" THEN fs.files[node.path]
        ELSE Emitted(get_multipart_boundary(node.headers).boundary, node.nodes)
      NodeText(node) ==
        <<Dash, Dash>> \o boundary \o CRLF
        \o Flatten([i \in DOMAIN node.headers |-> HeaderLine(node.headers[i])])
        \o CRLF \o Body(node) \o CRLF
  IN  Flatten([i \in DOMAIN nodes |-> NodeText(nodes[i])])
      \o <<Dash, Dash>> \o boundary \o <<Dash, Dash>>

\* C15: write_multipart emits, node by node, "--" boundary CRLF, the headers
\* as "Name: Value" CRLF in stored order, an empty line, the body (inline
\* bytes, file content, or the nested output under the child's resolved
\* boundary) and CRLF, and after the last node "--" boundary "--" with no
\* line terminator after it.
C15_PlainStreamLayout ==
  (written.done /\ written.ok) => written.bytes = Emitted(TopBoundary, tree)

C15_Witness ==
  /\ written.done /\ written.ok
  /\ Len(tree) = 2 /\ tree[1] = FAtt
  /\ tree[2].type = "Multipart" /\ tree[2].nodes = <<PFile, PText>>
  /\ Len(tree[2].headers) = 2

\* C16: on success write_multipart returns the number of bytes it wrote.
C16_CountIsBytesWritten ==
  (written.done /\ written.ok) => written.count = Len(written.bytes)

C16_Witness ==
  /\ written.done /\ written.ok /\ written.count > Len(written.bytes) \div 2
  /\ \E i \in DOMAIN tree : tree[i].type = "File"
  /\ \E i \in DOMAIN tree : tree[i].type = "Multipart" /\ tree[i].nodes # <<>>

\* --------------------------------------------- boundary resolver and generator

\* Headers a caller may hand to get_multipart_boundary: none or one
\* Content-Type, before or after a Content-Disposition or alone.
ContentTypes ==
  { <<"text/plain">>, <<"image/gif">>, <<"multipart/mixed">>,
    <<"multipart/mixed; boundary=", "a">>, <<"multipart/mixed; boundary=", "b", "a">>,
    <<"multipart/mixed; boundary=", "utf-8">>, <<"text/plain; boundary=", "a">> }

RequestHeaders ==
  LET cts == {<<>>} \cup {<<Header(ContentTypeName, v)>> : v \in ContentTypes}
      cds == {<<>>, <<Header(ContentDispositionName, <<"attachment">>)>>}
  IN  {cd \o ct : cd \in cds, ct \in cts} \cup {ct \o cd : cd \in cds, ct \in cts}

\* The alphabet of a nonce: standard base64, with its '+', '/' and '='.
NonceBytes == {"A", "+", "/", "="}

Nonces == SeqsUpTo(NonceBytes, MaxNonce)

\* get_multipart_boundary(headers)
GetMultipartBoundary ==
  /\ ~resolved.done
  /\ \E h \in RequestHeaders :
       LET r == get_multipart_boundary(h)
       IN  resolved' = [done |-> TRUE, headers |-> h, ok |-> r.ok, err |-> r.err,
                        boundary |-> r.boundary]
  /\ UNCHANGED <<parseVars, fs, nextDir, lifeVars, chunked, generated, calls, twin>>

\* generate_boundary()
GenerateBoundary ==
  /\ ~generated.done
  /\ \E n \in Nonces :
       generated' = [done |-> TRUE, nonce |-> n, boundary |-> generate_boundary(n)]
  /\ UNCHANGED <<parseVars, fs, nextDir, lifeVars, chunked, resolved, calls, twin>>

NextBoundary ==
  \/ GetMultipartBoundary
  \/ GenerateBoundary

SpecBoundary == InitLife /\ [][NextBoundary]_vars

\* The Content-Type lines of the headers, as they stand.
ContentTypeLines(headers) == SelectSeq(headers, LAMBDA h : h.name = ContentTypeName)

\* C17: get_multipart_boundary fails with the no-content-type error when the
\* headers hold no Content-Type, else with NotMultipart when the top-level
\* type is not multipart, else with BoundaryNotSpecified when there is no
\* boundary parameter; otherwise it returns "--" followed by the parameter's
\* value.
C17_BoundaryResolution ==
  resolved.done =>
    LET lines == ContentTypeLines(resolved.headers)
        text == lines[1].value[1]
    IN  IF lines = <<>>
          THEN ~resolved.ok /\ resolved.err = "NoRequestContentType"
        ELSE IF text \notin {"multipart/mixed", "multipart/mixed; boundary="}
          THEN ~resolved.ok /\ resolved.err = "NotMultipart"
        ELSE IF text # "multipart/mixed; boundary="
          THEN ~resolved.ok /\ resolved.err = "BoundaryNotSpecified"
        ELSE /\ resolved.ok
             /\ resolved.boundary = <<Dash, Dash>> \o Tail(lines[1].value)

\* C20: no byte of generate_boundary's output is '=' or '/': every '=' of the
\* nonce has become '-', every '/' has become '.', and the other bytes and
\* the length are as in the nonce.
C20_BoundaryHasNoEqualsNoSlash ==
  generated.done =>
    /\ Len(generated.boundary) = Len(generated.nonce)
    /\ \A i \in DOMAIN generated.boundary :
         /\ generated.boundary[i] \notin {"=", "/"}
         /\ generated.nonce[i] = "=" => generated.boundary[i] = "-"
         /\ generated.nonce[i] = "/" => generated.boundary[i] = "."
         /\ generated.nonce[i] \notin {"=", "/"}
              => generated.boundary[i] = generated.nonce[i]

C20_Witness ==
  /\ generated.done
  /\ generated.nonce = <<"/", "A", "=">>
  /\ generated.boundary = <<".", "A", "-">>

\* ------------------------------------------------- parse calls side by side
\* What parse calls running at the same time do to storage: per file part
\* FilePart::create, File::create and the streaming of the content (inner,
\* lines 291-305), then the return of the nodes, or of an error with the drop
\* of all that was built, and the caller's drop of the nodes it got.

Callers == {1, 2}

\* Directory names the allocator can hand out; it never hands out one that exists.
DirNames == 1..(MaxDirs + 1)

CallOf(n) == [pc |-> "loop", left |-> n, cur |-> <<>>, nodes |-> <<>>]

InitPair ==
  /\ tree = <<>>
  /\ always_use_files = TRUE
  /\ written = NotWritten
  /\ stream_kind = "none"
  /\ input = <<>>
  /\ pos = 0
  /\ bufEnd = 0
  /\ stack = <<>>
  /\ result = NoResult
  /\ fs = [files |-> UserFiles, dirs |-> {}]
  /\ nextDir = 1
  /\ live = <<>>
  /\ origin = <<>>
  /\ made = {}
  /\ chunked = NotChunked
  /\ resolved = NotResolved
  /\ generated = NotGenerated
  /\ calls \in [Callers -> {CallOf(n) : n \in 1..MaxCallFiles}]
  /\ twin = NoResult

\* let mut filepart = FilePart::create(part_headers)?
CallCreate ==
  \E c \in Callers, d \in DirNames \ fs.dirs :
    /\ calls[c].pc = "loop" /\ calls[c].left > 0
    /\ fs' = [fs EXCEPT !.dirs = @ \cup {d}]
    /\ calls' = [calls EXCEPT ![c].pc = "created",
                              ![c].cur = <<FilePart_create(<<>>, d)>>]
    /\ UNCHANGED <<parseVars, nextDir, lifeVars, chunked, resolved, generated, twin>>

\* let mut file = File::create(filepart.path.clone())?
CallOpen ==
  \E c \in Callers :
    /\ calls[c].pc = "created"
    /\ fs' = [fs EXCEPT !.files = PutFile(@, calls[c].cur[1].path, <<>>)]
    /\ calls' = [calls EXCEPT ![c].pc = "opened"]
    /\ UNCHANGED <<parseVars, nextDir, lifeVars, chunked, resolved, generated, twin>>

\* reader.stream_until_token(&lt_boundary, &mut file)?, then the push of the
\* node, or EofInFile and the drop of everything the call holds
CallStream ==
  \E c \in Callers, found \in BOOLEAN :
    /\ calls[c].pc = "opened"
    /\ LET fp == calls[c].cur[1]
           stored == [fs EXCEPT !.files = PutFile(@, fp.path, <<"x">>)]
       IN  IF found
             THEN /\ fs' = stored
                  /\ calls' = [calls EXCEPT
                       ![c].pc = "loop",
                       ![c].left = @ - 1,
                       ![c].cur = <<>>,
                       ![c].nodes = Append(@, [fp EXCEPT !.size = Some(1)])]
             ELSE /\ fs' = DropNodes(calls[c].nodes, FilePart_drop(fp, stored))
                  /\ calls' = [calls EXCEPT ![c].pc = "failed", ![c].cur = <<>>,
                                            ![c].nodes = <<>>]
    /\ UNCHANGED <<parseVars, nextDir, lifeVars, chunked, resolved, generated, twin>>

\* Ok(nodes): the nodes are now the caller's
CallReturn ==
  \E c \in Callers :
    /\ calls[c].pc = "loop" /\ calls[c].left = 0
    /\ calls' = [calls EXCEPT ![c].pc = "returned"]
    /\ UNCHANGED <<parseVars, fs, nextDir, lifeVars, chunked, resolved, generated, twin>>

\* the caller lets the nodes go out of scope
CallerDrop ==
  \E c \in Callers :
    /\ calls[c].pc = "returned"
    /\ fs' = DropNodes(calls[c].nodes, fs)
    /\ calls' = [calls EXCEPT ![c].pc = "dropped", ![c].nodes = <<>>]
    /\ UNCHANGED <<parseVars, nextDir, lifeVars, chunked, resolved, generated, twin>>

NextPair ==
  \/ CallCreate
  \/ CallOpen
  \/ CallStream
  \/ CallReturn
  \/ CallerDrop

SpecPair == InitPair /\ [][NextPair]_vars

\* The FileParts a call holds: the one being streamed and the ones pushed.
FilePartsOf(c) == calls[c].cur \o calls[c].nodes

\* C19: with an allocator that hands out a directory no other request has,
\* no step of one call writes to or deletes a file or a temp directory of a
\* FilePart the other call holds, in any interleaving.
C19_CallsKeepToTheirOwnFiles ==
  [][ \A c \in Callers :
        calls'[c] # calls[c]
          => \A o \in Callers \ {c} :
               \A i \in DOMAIN FilePartsOf(o) :
                 LET fp == FilePartsOf(o)[i]
                 IN  /\ (fp.path \in DOMAIN fs.files) <=> (fp.path \in DOMAIN fs'.files)
                     /\ fp.path \in DOMAIN fs.files => fs'.files[fp.path] = fs.files[fp.path]
                     /\ (fp.tempdir[1] \in fs.dirs) <=> (fp.tempdir[1] \in fs'.dirs)
    ]_vars

C19_Witness ==
  /\ calls # NoCalls
  /\ calls[1].pc = "failed" /\ calls[2].pc = "returned"
  /\ Len(calls[2].nodes) = MaxCallFiles
  /\ \A i \in DOMAIN calls[2].nodes : calls[2].nodes[i].path \in DOMAIN fs.files
  /\ Cardinality(fs.dirs) = MaxCallFiles

\* --------------------------------------------------------- the look-aheads

\* The terminator the bytes after the first boundary spell: CRLF, LF, or none.
TerminatorAhead ==
  IF Between(input, pos, pos + 2) = CRLF THEN CRLF
  ELSE IF Between(input, pos, pos + 1) = <<LF>> THEN <<LF>>
  ELSE <<>>

\* Whether the next two bytes of the stream are "--".
ClosingAhead == Between(input, pos, pos + 2) = <<Dash, Dash>>

\* C21: the outcome of a parse depends on the bytes of the stream only, not on
\* how reads and buffer refills deliver them: each of the two look-aheads (the
\* terminator after the first boundary, the closing "--") answers as the next
\* two bytes of the stream read, also when a buffer fill ends between them.
C21_LookAheadsSeeTheStream ==
  [][ /\ (stack # <<>> /\ Top.pc = "terminator")
           => IF TerminatorAhead = <<>>
                THEN result'.status = "Err"
                ELSE /\ result'.status = "none"
                     /\ stack' # <<>>
                     /\ stack'[Len(stack')].lt = TerminatorAhead
      /\ (stack # <<>> /\ Top.pc = "peek")
           => /\ stack' # <<>>
              /\ (stack'[Len(stack')].pc = "return") <=> ClosingAhead
    ]_vars

\* ------------------------------------------------------- the kinds of error

\* The error kind of the stage the innermost activation is at.
StageKind ==
  IF Top.pc = "boundary" THEN "EofBeforeFirstBoundary"
  ELSE IF Top.pc \in {"terminator", "lt"} THEN "NoCrLfAfterBoundary"
  ELSE IF Top.pc = "headers" THEN "EofInPartHeaders"
  ELSE IF is_file(Top.part_headers, always_use_files) THEN "EofInFile"
  ELSE "EofInPart"

\* C22: a level fails with the kind of the stage at which the stream ended:
\* EofBeforeFirstBoundary when no boundary is found, NoCrLfAfterBoundary when
\* the terminator of a boundary line is missing, EofInPartHeaders when the
\* blank line after a header block is missing, EofInFile and EofInPart when
\* the content of a file part, of an inline part, has no terminator+boundary
\* after it; and none of these kinds is returned at another stage.
C22_ErrorKindIsTheStage ==
  [][ /\ (ScanRunsOut /\ (Top.pc = "boundary" => get_multipart_boundary(Top.headers).ok))
           => result' = Err(StageKind)
      /\ (stack # <<>> /\ Top.pc = "terminator" /\ TerminatorAhead = <<>>)
           => result' = Err(StageKind)
      /\ (result.status = "none" /\ result'.status = "Err"
            /\ result'.err \in TruncationKinds)
           => (stack # <<>> /\ result'.err = StageKind)
    ]_vars

C22_Witness ==
  /\ result = Err("EofInPart") /\ stream_kind = "truncated"
  /\ pos = Len(input) /\ ~always_use_files
  /\ Len(tree) = 2 /\ tree[1] = FAtt
  /\ tree[2].type = "Multipart" /\ tree[2].nodes = <<PText>>
  /\ nextDir = 2

\* ------------------------------------------------- the line terminator

\* The bytes a scan step consumed last are `token`.
ConsumedToken(token) == Between(input, pos' - Len(token), pos') = token

\* C23: after the first boundary of a level the next bytes fix the level's
\* line terminator: CRLF when the next two bytes are CR LF, LF when the next
\* byte is LF, else the parse fails with NoCrLfAfterBoundary; the level keeps
\* that terminator, and every later scan of the level ends at it (a boundary
\* line), at its doubling (a header block), at terminator+boundary (content).
C23_TerminatorFixedByNextBytes ==
  [][ /\ (stack # <<>> /\ Top.pc = "terminator")
           => IF TerminatorAhead = <<>>
                THEN result' = Err("NoCrLfAfterBoundary")
                ELSE /\ stack' # <<>>
                     /\ stack'[Len(stack')].pc = "peek"
                     /\ stack'[Len(stack')].lt = TerminatorAhead
      /\ \A k \in DOMAIN stack :
           (stack[k].lt # <<>> /\ k \in DOMAIN stack') => stack'[k].lt = stack[k].lt
      /\ (stack # <<>> /\ result'.status = "none" /\ pos' > pos)
           => /\ Top.pc = "lt" => ConsumedToken(Top.lt)
              /\ Top.pc = "headers" => ConsumedToken(Top.lt \o Top.lt)
              /\ Top.pc = "classify" => ConsumedToken(Top.lt \o Top.boundary)
    ]_vars

\* ------------------------------------------------------ returned File nodes

\* C24: every Node::File a parse has appended, at any depth, has its size
\* set, owns its storage (tempdir is set) and names a file that exists: in
\* particular all the File nodes of a returned result do, at its return.
C24_ReturnedFilesAreComplete ==
  \A i \in DOMAIN FileNodes :
    LET f == FileNodes[i]
    IN  /\ f.size # None
        /\ f.tempdir # None /\ f.tempdir[1] \in fs.dirs
        /\ f.path \in DOMAIN fs.files
        /\ f.path.dir = f.tempdir[1]

C24_Witness ==
  /\ result.status = "Ok" /\ Len(result.nodes) = 2
  /\ result.nodes[1].type = "File" /\ result.nodes[1].size = Some(4)
  /\ result.nodes[2].type = "Multipart" /\ Len(result.nodes[2].nodes) = 2
  /\ \A j \in 1..2 : result.nodes[2].nodes[j].type = "File"
  /\ Cardinality(DOMAIN fs.files) = 4

\* ------------------------------------------------------------- inline bodies

\* The Part node the step has just appended to the innermost node list, if any.
AppendedPart ==
  IF /\ stack # <<>> /\ Len(stack') = Len(stack)
     /\ Len(stack'[Len(stack')].nodes) = Len(Top.nodes) + 1
     /\ stack'[Len(stack')].nodes[Len(Top.nodes) + 1].type = "Part"
    THEN Some(stack'[Len(stack')].nodes[Len(Top.nodes) + 1])
    ELSE None

\* C25: the body of an inline Part is exactly the bytes of the stream from the
\* blank line that ended its header block up to the terminator+boundary that
\* follows: the scan started right after that blank line, the body is what
\* lay between there and the first terminator+boundary, that token excluded,
\* and nothing read before (preamble, header block, earlier parts) is in it.
C25_BodyIsTheContentBytes ==
  [][ AppendedPart # None
        => LET token == Top.lt \o Top.boundary
               body == AppendedPart[1].body
           IN  /\ Between(input, pos - 2 * Len(Top.lt), pos) = Top.lt \o Top.lt
               /\ body = Between(input, pos, pos' - Len(token))
               /\ Between(input, pos' - Len(token), pos') = token
               /\ \A i \in pos..(pos' - Len(token) - 1) :
                    Between(input, i, i + Len(token)) # token
    ]_vars

C25_Witness ==
  /\ result.status = "Ok" /\ stream_kind = "preamble"
  /\ Len(result.nodes) = 2
  /\ result.nodes[1].type = "Part" /\ result.nodes[1].body = <<"x">>
  /\ result.nodes[1].headers # <<>>
  /\ result.nodes[2].type = "Part" /\ result.nodes[2].body = <<"x", CR, LF, "x">>

\* --------------------------------------------------------------- termination

\* A step of a parse call in progress.
ParseStep ==
  \/ FirstBoundary
  \/ LineTerminator
  \/ Peek
  \/ Return
  \/ ReadLineTerminator
  \/ ReadHeaders
  \/ Recurse
  \/ StreamFile
  \/ ReadPart

\* The parser is sequential code over a stream whose reads return: a call in
\* progress keeps taking its next step.
SpecTerm == Init /\ [][Next]_vars /\ WF_vars(ParseStep)

\* C26: on every finite input a parse call eventually returns, a node list or
\* an error.  The offset into the stream never moves back nor past the end;
\* every pass of a level's loop that does not return consumes at least the
\* level's line terminator, and every recursive call that does not fail
\* consumes at least its boundary token.
C26_ParseReturns ==
  /\ (stack # <<>>) ~> (result.status # "none")
  /\ [][ /\ pos <= pos' /\ pos' <= Len(input')
         /\ (stack # <<>> /\ Top.pc = "lt" /\ result'.status = "none")
              => pos' >= pos + Len(Top.lt) /\ Len(Top.lt) > 0
         /\ (stack # <<>> /\ Top.pc = "boundary" /\ result'.status = "none")
              => pos' >= pos + Len(stack'[Len(stack')].boundary)
                 /\ Len(stack'[Len(stack')].boundary) > 2
       ]_vars

C26_Witness ==
  /\ result.status = "Ok" /\ stream_kind = "lf" /\ always_use_files
  /\ Len(result.nodes) = 1 /\ result.nodes[1].type = "Multipart"
  /\ Len(result.nodes[1].nodes) = 2
  /\ pos < Len(input)

\* ------------------------------------------------- parts with many headers

\* Header lines beyond the ones the parser looks at.
NoteNames == <<"X-1", "X-2", "X-3", "X-4", "X-5">>

Notes(n) == [i \in 1..n |-> Header(<<NoteNames[i]>>, <<"x">>)]

\* A part whose header block fills the header array, and one that overflows it.
PFull == Part(Notes(MaxPartHeaders), <<"x">>)
PMany == Part(Notes(MaxPartHeaders + 1), <<"x">>)

ManyLeaves == {PName, PFull, PMany}

ManyTrees ==
  {t \in SeqsUpTo(ManyLeaves \cup {Multipart(h, kids) :
                                     h \in MultipartHeaders,
                                     kids \in SeqsUpTo({PFull, PMany}, 1)},
                  MaxParts) :
     Cardinality({i \in DOMAIN t : t[i].type = "Multipart"}) <= 1}

InitMany ==
  /\ tree \in ManyTrees
  /\ always_use_files \in BOOLEAN
  /\ written = NotWritten
  /\ stream_kind = "none"
  /\ input = <<>>
  /\ pos = 0
  /\ bufEnd = 0
  /\ stack = <<>>
  /\ result = NoResult
  /\ fs = [files |-> UserFiles, dirs |-> {}]
  /\ nextDir = 1
  /\ live = <<>>
  /\ origin = <<>>
  /\ made = {}
  /\ chunked = NotChunked
  /\ resolved = NotResolved
  /\ generated = NotGenerated
  /\ calls = NoCalls
  /\ twin = NoResult

SpecMany == InitMany /\ [][Next]_vars

\* The header block the innermost activation is about to read, as inner
\* hands it to the header parser; whether the stream holds all of it; and
\* whether it is the block of the part with one header too many.
NextBlock ==
  stream_until_token(input, pos, Top.lt \o Top.lt).copied \o Top.lt \o Top.lt

BlockEnds == stream_until_token(input, pos, Top.lt \o Top.lt).found

Overfull ==
  LET sent == write_headers(PMany.headers) \o CRLF
  IN  BlockEnds /\ NextBlock \in {sent, WithLF(sent)}

\* C27: a header block is parsed once.  When the header parser does not
\* report it complete the call fails in that step (with PartialHeaders when
\* the report is "incomplete") having read nothing beyond the block; a block
\* with more headers than the header array holds is not tried again with a
\* larger one; and the header stage is entered from a boundary line only,
\* never a second time for the same part.
C27_HeadersParsedOnce ==
  [][ /\ (stack # <<>> /\ Top.pc = "headers" /\ BlockEnds)
           => /\ parse_headers(NextBlock).status = "Partial"
                   => result' = Err("PartialHeaders")
              /\ parse_headers(NextBlock).status # "Complete"
                   => (result'.status = "Err" /\ stack' = <<>>)
              /\ pos' = stream_until_token(input, pos, Top.lt \o Top.lt).pos
              /\ Overfull => result' = Err("Httparse")
      /\ (stack # <<>> /\ Top.pc = "headers")
           => (result'.status = "Err" \/ stack'[Len(stack')].pc = "classify")
      /\ (stack' # <<>> /\ stack'[Len(stack')].pc = "headers" /\ stack' # stack)
           => (stack # <<>> /\ Top.pc = "lt")
    ]_vars

C27_Witness ==
  /\ result = Err("Httparse") /\ stream_kind = "crlf"
  /\ Len(tree) = 2 /\ tree[1] = PFull
  /\ tree[2].type = "Multipart" /\ tree[2].nodes = <<PMany>>
  /\ Between(input, pos - Len(write_headers(PMany.headers)) - 2, pos)
       = write_headers(PMany.headers) \o CRLF

\* ------------------------------------------------------------ read_multipart

\* The header block in front of a body: the header lines, the last one
\* without its line end; "\r\n\r\n" follows it on the stream.
MainBlock ==
  LET lines == write_headers(TopHeaders)
  IN  SubSeq(lines, 1, Len(lines) - Len(CRLF))

\* The streams read_multipart is given: the block, "\r\n\r\n" and the body the
\* call of read_multipart_body was given; and every stream that ends before
\* any "\r\n\r\n".
MainStreams ==
  LET head == MainBlock \o CRLF \o CRLF
  IN  {head \o input} \cup {SubSeq(head, 1, cut) : cut \in 0..(Len(head) - 1)}

\* read_multipart(stream, always_use_files), up to the call of inner; called
\* after read_multipart_body has returned, on the same body
ReadMultipart ==
  /\ twin = NoResult /\ result # NoResult /\ stack = <<>>
  /\ stream_kind \in {"crlf", "lf", "preamble"}
  /\ twin' = result
  /\ \E s \in MainStreams :
     \E r \in {stream_until_token(s, 0, CRLF \o CRLF)} :
     \E buf \in {r.copied \o CRLF \o CRLF} :
     \E parsed \in {parse_main_headers(buf)} :
       /\ input' = s
       /\ pos' = r.pos
       /\ bufEnd' \in {e \in r.pos..Len(s) : e - r.pos <= MaxShortRead \/ e = Len(s)}
       /\ IF ~r.found
            THEN /\ stream_kind' = "headless"
                 /\ result' = Err("EofInMainHeaders")
                 /\ stack' = <<>>
          ELSE IF parsed.status # "Complete"
            THEN /\ stream_kind' = "main"
                 /\ result' = Err(IF parsed.status = "Partial" THEN "PartialHeaders"
                                  ELSE "Httparse")
                 /\ stack' = <<>>
          ELSE /\ stream_kind' = "main"
               /\ result' = NoResult
               /\ stack' = <<Frame(parsed.headers)>>
  /\ UNCHANGED <<tree, always_use_files, written, fs, nextDir, lifeVars,
                 chunked, resolved, generated, calls>>

NextMain ==
  \/ ReadMultipartBody
  \/ ReadMultipart
  \/ FirstBoundary
  \/ LineTerminator
  \/ Peek
  \/ Return
  \/ ReadLineTerminator
  \/ ReadHeaders
  \/ Recurse
  \/ StreamFile
  \/ ReadPart

SpecMain == Init /\ [][NextMain]_vars

\* Two node lists alike: the same shape, and in every node the same headers
\* and the same body bytes, in memory or in the node's file.
RECURSIVE SameNodes(_, _)
SameNodes(ns, ms) ==
  /\ Len(ns) = Len(ms)
  /\ \A i \in DOMAIN ns :
       /\ i \in DOMAIN ms
       /\ ns[i].type = ms[i].type
       /\ ns[i].headers = ms[i].headers
       /\ IF ns[i].type = "Multipart"
            THEN SameNodes(ns[i].nodes, ms[i].nodes)
            ELSE Content(ns[i]) = Content(ms[i]) /\ ns[i].size = ms[i].size

SameResult(a, b) ==
  /\ a.status = b.status
  /\ a.err = b.err
  /\ SameNodes(a.nodes, b.nodes)

\* C28: read_multipart on a header block, "\r\n\r\n" and a body returns what
\* read_multipart_body returns on that body under the headers of the block;
\* on a stream that ends before any "\r\n\r\n" it fails with EofInMainHeaders
\* and makes no temp file.
C28_ReadMultipartIsHeadersThenBody ==
  /\ []((stream_kind = "main" /\ Finished) => SameResult(result, twin))
  /\ [](stream_kind = "headless" => result = Err("EofInMainHeaders"))
  /\ [][ (result'.err = "EofInMainHeaders" /\ result' # result)
           => (fs' = fs /\ nextDir' = nextDir) ]_vars

====
